---- MODULE Spec2Model ----
(***************************************************************************)
(* System Monitor & Network Analyzer (src/code.py): the snapshot           *)
(* collector and its bounded history (SystemMonitor), the alert check, the *)
(* alert configuration, the background monitoring loop with its start and  *)
(* stop (SystemAnalyzer) and the connectivity test (NetworkAnalyzer).      *)
(*                                                                         *)
(* Percentages, gigabytes and thresholds are floats in the source; here    *)
(* they are integers (whole percents, whole GB).  Time is in whole         *)
(* seconds, the precision of a snapshot's timestamp.                       *)
(***************************************************************************)
EXTENDS Integers, Sequences, FiniteSets, TLC

(* ------------------------------------------------------------------ *)
(* Program constants                                                  *)
(* ------------------------------------------------------------------ *)

\* take_snapshot keeps the last 100 snapshots.
HistoryCap == 100

\* save_data keeps the last 50 snapshots.
SaveCap == 50

\* SystemMonitor.__init__: the default alert thresholds.
DefaultCpuThreshold == 80
DefaultMemoryThreshold == 85
DefaultDiskThreshold == 90

\* stop_monitoring: monitor_thread.join(timeout=1).
JoinTimeout == 1

(* ------------------------------------------------------------------ *)
(* Bounds of the model                                                *)
(* ------------------------------------------------------------------ *)

\* take_snapshot calls in one behaviour.
MaxCalls == 2

\* configure_alerts calls in one behaviour.
MaxConfigs == 1

\* take_snapshot calls in one behaviour that also configures the alerts.
MaxCfgCalls == 1

\* Seconds the clock advances in one behaviour.
MaxTime == 1

(* ------------------------------------------------------------------ *)
(* Helpers                                                            *)
(* ------------------------------------------------------------------ *)

Min(a, b) == IF a < b THEN a ELSE b

Max(a, b) == IF a > b THEN a ELSE b

\* Python's s[-n:]: the last n elements, or all of s when it has fewer.
SliceLast(s, n) == SubSeq(s, Max(1, Len(s) - n + 1), Len(s))

\* Python's s[:n]: the first n elements, or all of s when it has fewer.
SliceFirst(s, n) == SubSeq(s, 1, Min(n, Len(s)))

Metrics == <<"cpu", "memory", "disk">>

MetricSet == {"cpu", "memory", "disk"}

(* ------------------------------------------------------------------ *)
(* Exceptions: the classes the getters name, and Python's hierarchy   *)
(* (FileNotFoundError and PermissionError are OSErrors).              *)
(* ------------------------------------------------------------------ *)

IsSubclass(e, c) ==
    \/ e = c
    \/ c = "OSError" /\ e \in {"FileNotFoundError", "PermissionError"}
    \/ c = "BaseException"

\* An except clause naming the classes `handlers` catches e.
Caught(e, handlers) == \E c \in handlers : IsSubclass(e, c)

\* What a try body did: returned val, raised exc, or ran to its end
\* without returning.
Ret(v) == [kind |-> "ret", val |-> v, exc |-> "-"]

Raise(e, zero) == [kind |-> "raise", val |-> zero, exc |-> e]

Fall(zero) == [kind |-> "fall", val |-> zero, exc |-> "-"]

ZeroTriple == <<0, 0, 0>>

ZeroPair == <<0, 0>>

(* ------------------------------------------------------------------ *)
(* The getters.  `body` is what the platform code inside the try did. *)
(* ------------------------------------------------------------------ *)

\* line 99: min(100.0, os.getloadavg()[0] * 20) if hasattr(os, 'getloadavg')
\* else 0.0.  `load` is Ret(load average), Fall (no getloadavg) or the
\* OSError getloadavg raises when the load average is unobtainable.
cpu_fallback(load) ==
    CASE load.kind = "ret" -> Ret(Min(100, load.val * 20))
      [] load.kind = "fall" -> Ret(0)
      [] OTHER -> Raise(load.exc, 0)

get_cpu_usage(body, load) ==
    CASE body.kind = "ret" -> Ret(body.val)
      [] body.kind = "raise"
         /\ ~Caught(body.exc, {"ValueError", "IndexError", "FileNotFoundError"})
           -> Raise(body.exc, 0)
      [] OTHER -> cpu_fallback(load)

get_memory_usage(body) ==
    CASE body.kind = "ret" -> Ret(body.val)
      [] body.kind = "raise"
         /\ ~Caught(body.exc, {"ValueError", "IndexError", "FileNotFoundError"})
           -> Raise(body.exc, ZeroTriple)
      [] OTHER -> Ret(ZeroTriple)

get_disk_usage(body) ==
    CASE body.kind = "ret" -> Ret(body.val)
      [] body.kind = "raise" /\ ~Caught(body.exc, {"OSError", "AttributeError"})
           -> Raise(body.exc, ZeroTriple)
      [] OTHER -> Ret(ZeroTriple)

\* A caught error leaves the sums collected so far; here the error
\* comes before the first interface is read, so the sums are 0.
_get_network_stats(body) ==
    CASE body.kind = "ret" -> Ret(body.val)
      [] body.kind = "raise"
         /\ ~Caught(body.exc, {"FileNotFoundError", "PermissionError"})
           -> Raise(body.exc, ZeroPair)
      [] OTHER -> Ret(ZeroPair)

\* A bare except: everything is caught.
get_active_connections(body) ==
    CASE body.kind = "ret" -> Ret(body.val)
      [] body.kind = "raise" /\ ~Caught(body.exc, {"BaseException"})
           -> Raise(body.exc, 0)
      [] OTHER -> Ret(0)

(* ------------------------------------------------------------------ *)
(* One collection: what each platform source does during one          *)
(* take_snapshot.  out_ok: stdout can encode what the program prints. *)
(* ------------------------------------------------------------------ *)

Backend(cpu, load, mem, disk, net, conn, ok) ==
    [cpu |-> cpu, load |-> load, mem |-> mem, disk |-> disk,
     net |-> net, conn |-> conn, out_ok |-> ok]

OkLoad == Ret(0)

OkMem == Ret(<<85, 8, 16>>)

OkDisk == Ret(<<90, 90, 100>>)

OkNet == Ret(<<1000, 2000>>)

OkConn == Ret(3)

\* Every source answers; the percentages sit at and just above the
\* default thresholds.
HealthyBackends ==
    { Backend(Ret(c), OkLoad, Ret(<<m, 8, 16>>), Ret(<<d, 90, 100>>),
              OkNet, OkConn, TRUE) :
        c \in {80, 81}, m \in {85, 86}, d \in {90, 91} }

\* One source fails, the others answer.
FailingBackends ==
    { Backend(Raise("ValueError", 0), l, OkMem, OkDisk, OkNet, OkConn, TRUE) :
        l \in {Ret(0), Ret(6), Fall(0), Raise("OSError", 0)} }
    \cup
    { Backend(Fall(0), OkLoad, OkMem, OkDisk, OkNet, OkConn, TRUE),
      Backend(Raise("PermissionError", 0), OkLoad, OkMem, OkDisk, OkNet, OkConn, TRUE),
      Backend(Ret(81), OkLoad, Raise("ValueError", ZeroTriple), OkDisk, OkNet, OkConn, TRUE),
      Backend(Ret(81), OkLoad, Fall(ZeroTriple), OkDisk, OkNet, OkConn, TRUE),
      Backend(Ret(81), OkLoad, Raise("ZeroDivisionError", ZeroTriple), OkDisk, OkNet, OkConn, TRUE),
      Backend(Ret(81), OkLoad, OkMem, Raise("OSError", ZeroTriple), OkNet, OkConn, TRUE),
      Backend(Ret(81), OkLoad, OkMem, Raise("AttributeError", ZeroTriple), OkNet, OkConn, TRUE),
      Backend(Ret(81), OkLoad, OkMem, OkDisk, Raise("PermissionError", ZeroPair), OkConn, TRUE),
      Backend(Ret(81), OkLoad, OkMem, OkDisk, Raise("OSError", ZeroPair), OkConn, TRUE),
      Backend(Ret(81), OkLoad, OkMem, OkDisk, OkNet, Raise("OSError", 0), TRUE),
      Backend(Ret(81), OkLoad, OkMem, OkDisk, OkNet, Fall(0), TRUE) }

\* stdout cannot encode the symbols the status and the alerts print.
MuteBackends ==
    { Backend(Ret(c), OkLoad, OkMem, OkDisk, OkNet, OkConn, FALSE) : c \in {80, 81} }

Backends == HealthyBackends \cup FailingBackends \cup MuteBackends

(* ------------------------------------------------------------------ *)
(* take_snapshot, piece by piece                                      *)
(* ------------------------------------------------------------------ *)

SystemSnapshot(ts, cpu, mem, disk, net, conn) ==
    [timestamp |-> ts,
     cpu_percent |-> cpu,
     memory_percent |-> mem[1], memory_used_gb |-> mem[2], memory_total_gb |-> mem[3],
     disk_percent |-> disk[1], disk_used_gb |-> disk[2], disk_total_gb |-> disk[3],
     network_bytes_sent |-> net[1], network_bytes_recv |-> net[2],
     active_connections |-> conn]

\* lines 290-294: the five getters in order; the first exception that
\* leaves a getter leaves take_snapshot.  "-" when none does.
CollectError(b) ==
    LET cpu == get_cpu_usage(b.cpu, b.load)
        mem == get_memory_usage(b.mem)
        disk == get_disk_usage(b.disk)
        net == _get_network_stats(b.net)
        conn == get_active_connections(b.conn)
    IN  CASE cpu.kind = "raise" -> cpu.exc
          [] mem.kind = "raise" -> mem.exc
          [] disk.kind = "raise" -> disk.exc
          [] net.kind = "raise" -> net.exc
          [] conn.kind = "raise" -> conn.exc
          [] OTHER -> "-"

\* lines 296-308: the snapshot of a collection no getter raised in,
\* stamped with the clock's reading ts.
Collected(b, ts) ==
    SystemSnapshot(ts,
                   get_cpu_usage(b.cpu, b.load).val,
                   get_memory_usage(b.mem).val,
                   get_disk_usage(b.disk).val,
                   _get_network_stats(b.net).val,
                   get_active_connections(b.conn).val)

\* line 313: if len(self.snapshots) > 100
Overflow(h) == Len(h) > HistoryCap

KeepFirst(h) == SliceFirst(h, HistoryCap)

\* line 314: self.snapshots[-100:]
KeepLast(h) == SliceLast(h, HistoryCap)

AppendDropped(h, s) == h

\* lines 310-314 run without interruption.
AppendAndTrim(h, s) ==
    LET h1 == Append(h, s) IN IF Overflow(h1) THEN KeepLast(h1) ELSE h1

Alert(m, v) == [metric |-> m, value |-> v]

ReachesOrExceeds(v, threshold) == v >= threshold

\* lines 326, 329, 332: value > threshold
Exceeds(v, threshold) == v > threshold

\* lines 324-333: the alerts list _check_alerts builds.
_check_alerts(snapshot, thresholds) ==
    (IF Exceeds(snapshot.cpu_percent, thresholds["cpu"])
       THEN <<Alert("cpu", snapshot.cpu_percent)>> ELSE <<>>)
    \o (IF Exceeds(snapshot.memory_percent, thresholds["memory"])
          THEN <<Alert("memory", snapshot.memory_percent)>> ELSE <<>>)
    \o (IF Exceeds(snapshot.disk_percent, thresholds["disk"])
          THEN <<Alert("disk", snapshot.disk_percent)>> ELSE <<>>)

\* lines 317-318: the alerts take_snapshot evaluates.
AlertsOf(snapshot, enabled, thresholds) ==
    IF enabled THEN _check_alerts(snapshot, thresholds) ELSE <<>>

\* lines 335-339: the alert lines are printed only when there are alerts;
\* printing them fails when stdout cannot encode them.
AlertPrintFails(alerts, b) == alerts # <<>> /\ ~b.out_ok

\* lines 501-522: display_current_status prints the status.
DisplayFails(b) == ~b.out_ok

(* ------------------------------------------------------------------ *)
(* configure_alerts: what one prompt does with the line typed         *)
(* ------------------------------------------------------------------ *)

\* The lines typed at a threshold prompt.
ConfigInputs == {"", "  ", "abc", "nan", "-5", "0", "50", "100", "101"}

\* str.strip()
strip(line) == IF line = "  " THEN "" ELSE line

\* float(): a number, not-a-number, or ValueError.
float(text) ==
    CASE text = "nan" -> [kind |-> "nan", val |-> 0]
      [] text = "-5" -> [kind |-> "num", val |-> -5]
      [] text = "0" -> [kind |-> "num", val |-> 0]
      [] text = "50" -> [kind |-> "num", val |-> 50]
      [] text = "100" -> [kind |-> "num", val |-> 100]
      [] text = "101" -> [kind |-> "num", val |-> 101]
      [] OTHER -> [kind |-> "ValueError", val |-> 0]

InRangeFromZero(f) == f.kind = "num" /\ 0 <= f.val /\ f.val <= 100

\* line 667: 0 < threshold <= 100 (every comparison with nan is false).
InRange(f) == f.kind = "num" /\ 0 < f.val /\ f.val <= 100

\* lines 662-673: the threshold of a metric after `line` was typed at its
\* prompt.
NewThreshold(current, line) ==
    LET new_value == strip(line) IN
    IF new_value = "" THEN current
    ELSE LET threshold == float(new_value) IN
         IF threshold.kind = "ValueError" THEN current
         ELSE IF InRange(threshold) THEN threshold.val
         ELSE current

(* ------------------------------------------------------------------ *)
(* NetworkAnalyzer                                                    *)
(* ------------------------------------------------------------------ *)

\* NetworkAnalyzer.__init__: the test servers, in order.
test_servers == <<"google.com", "cloudflare.com", "github.com", "stackoverflow.com">>

Hosts == 1..Len(test_servers)

\* ping_host's timeout, 3 seconds, in milliseconds.
PingTimeoutMs == 3000

\* Optional[float]: a round-trip time in ms, or None.
Some(ms) == [present |-> TRUE, ms |-> ms]

None == [present |-> FALSE, ms |-> 0]

\* What one ping_host call does: the connection is made after `took` ms
\* and the call returns that time, or the attempt fails (at once, or at
\* the timeout) and the call returns None.
Probe(ok, took) == [ok |-> ok, took |-> took]

ProbeOutcomes ==
    { Probe(TRUE, ms) : ms \in {0, 40, 120} }
    \cup { Probe(FALSE, ms) : ms \in {0, PingTimeoutMs} }

\* lines 355-361
ping_host(o) == IF o.ok THEN Some(o.took) ELSE None

\* Python's truth of an Optional[float]: None and 0.0 are false.
Truthy(v) == v.present /\ v.ms # 0

\* lines 373-376: what is printed for a host.
ReportOf(ping_time) == IF Truthy(ping_time) THEN "ms" ELSE "TIMEOUT"

MayStartAtOnce(i, flying, started) == started[i] < 0

\* The for loop of test_connectivity (line 368) calls ping_host for host
\* i when no call is under way and the hosts before i are done.
MayStart(i, flying, started) ==
    /\ flying = {}
    /\ started[i] < 0
    /\ \A j \in Hosts : j < i => started[j] >= 0

RECURSIVE SumOver(_, _)
SumOver(f, S) ==
    IF S = {} THEN 0
    ELSE LET x == CHOOSE y \in S : TRUE IN f[x] + SumOver(f, S \ {x})

\* line 598: the pings that are not None.
ValidPings(r) == {i \in Hosts : r[i].present}

\* lines 599-610: the summary printed when some ping is valid; nothing is
\* printed otherwise.  avg < 50 is sum < 50 * n.
SummaryOf(r) ==
    LET valid == ValidPings(r)
        n == Cardinality(valid)
        total == SumOver([i \in Hosts |-> r[i].ms], valid)
    IN  IF n = 0
        THEN [printed |-> FALSE, reachable |-> 0, quality |-> "-"]
        ELSE [printed |-> TRUE, reachable |-> n,
              quality |-> IF total < 50 * n THEN "Excellent"
                          ELSE IF total < 100 * n THEN "Good" ELSE "Poor"]

(* ------------------------------------------------------------------ *)
(* display_historical_analysis: the CPU trend                         *)
(* ------------------------------------------------------------------ *)

\* line 568: the data points a trend needs.
TrendMin == 10

\* lines 569-570: the values each end of the comparison takes.
TrendSpan == 5

RECURSIVE SumSeq(_)
SumSeq(s) == IF s = <<>> THEN 0 ELSE Head(s) + SumSeq(Tail(s))

\* statistics.mean(a) > statistics.mean(b) for a and b of TrendSpan
\* values each: the means compare as the sums do.
MeanGreater(a, b) == SumSeq(a) * Len(b) > SumSeq(b) * Len(a)

OlderOfLastTen(values) == SliceFirst(SliceLast(values, 2 * TrendSpan), TrendSpan)

\* line 570: cpu_values[:5]
older_cpu(values) == SliceFirst(values, TrendSpan)

\* line 569: cpu_values[-5:]
recent_cpu(values) == SliceLast(values, TrendSpan)

\* lines 568-573: the trend printed; "-" when none is.
TrendOf(values) ==
    IF Len(values) >= TrendMin
    THEN IF MeanGreater(recent_cpu(values), older_cpu(values))
         THEN "Increasing" ELSE "Decreasing"
    ELSE "-"

(* ------------------------------------------------------------------ *)
(* The data file: save_data and load_historical_data                  *)
(* ------------------------------------------------------------------ *)

\* The fields of the SystemSnapshot dataclass, in order (lines 30-40).
Fields ==
    <<"timestamp", "cpu_percent", "memory_percent", "memory_used_gb",
      "memory_total_gb", "disk_percent", "disk_used_gb", "disk_total_gb",
      "network_bytes_sent", "network_bytes_recv", "active_connections">>

\* dataclasses.asdict: the dict of a snapshot, as its (key, value) items
\* in field order.
asdict(s) == [i \in 1..Len(Fields) |-> <<Fields[i], s[Fields[i]]>>]

SaveWindowOldest(h) == SliceFirst(h, SaveCap)

\* line 489: self.monitor.snapshots[-50:]
SaveWindow(h) == SliceLast(h, SaveCap)

\* line 489: the 'snapshots' entry of the document save_data writes.
DocumentOf(h) ==
    [i \in 1..Len(SaveWindow(h)) |-> asdict(SaveWindow(h)[i])]

\* No data file yet.
NoFile == [exists |-> FALSE, snapshots |-> <<>>]

\* lines 487-493: the file after save_data.
json_dump(h) == [exists |-> TRUE, snapshots |-> DocumentOf(h)]

\* The keys of a dict.
Keys(d) == {d[i][1] : i \in 1..Len(d)}

\* d[k]: when a key occurs more than once, the last item counts.
Lookup(d, k) ==
    LET at == {i \in 1..Len(d) : d[i][1] = k}
        last == CHOOSE i \in at : \A j \in at : j <= i
    IN  d[last][2]

\* line 479: SystemSnapshot(**snapshot), which raises TypeError unless
\* the keys are exactly the fields.
FromDict(d) ==
    IF Keys(d) = {Fields[i] : i \in 1..Len(Fields)}
    THEN [kind |-> "ret", val |-> [f \in Keys(d) |-> Lookup(d, f)]]
    ELSE [kind |-> "TypeError", val |-> <<>>]

\* lines 473-483: the history after load_historical_data; it leaves the
\* empty history of SystemMonitor.__init__ alone when there is no file
\* or a TypeError, which it catches.
LoadedFrom(file) ==
    IF ~file.exists THEN <<>>
    ELSE IF \E i \in 1..Len(file.snapshots) : FromDict(file.snapshots[i]).kind # "ret"
         THEN <<>>
    ELSE [i \in 1..Len(file.snapshots) |-> FromDict(file.snapshots[i]).val]

(* ------------------------------------------------------------------ *)
(* State                                                              *)
(* ------------------------------------------------------------------ *)

\* Loop threads one behaviour starts.
MaxThreads == 2

Main == 0

LoopThreads == 1..MaxThreads

Threads == {Main} \cup LoopThreads

NoSnapshot == SystemSnapshot(-1, 0, ZeroTriple, ZeroTriple, ZeroPair, 0)

NoBackend == Backend(Fall(0), Fall(0), Fall(ZeroTriple), Fall(ZeroTriple),
                     Fall(ZeroPair), Fall(0), TRUE)

VARIABLES
    snapshots,          \* SystemMonitor.snapshots
    alert_thresholds,   \* SystemMonitor.alert_thresholds
    alerts_enabled,     \* SystemMonitor.alerts_enabled
    running,            \* SystemAnalyzer.running
    monitor_thread,     \* SystemAnalyzer.monitor_thread (0: None)
    pc,                 \* where each thread is
    snapshot,           \* take_snapshot's local `snapshot`, per thread
    sliced,             \* self.snapshots[-100:] evaluated, not yet stored
    backend,            \* what the platform does during the thread's call
    period,             \* monitor_loop's `interval`, per loop thread
    wake,               \* when the thread's time.sleep(interval) ends
    deadline,           \* when stop_monitoring's join(timeout=1) gives up
    now,                \* the clock, in seconds
    alerts_out,         \* the alerts the last _check_alerts built
    ret,                \* Main's last take_snapshot: "ok", or the exception it raised
    typed,              \* the line typed at the last threshold prompt
    saved,              \* the data file
    cpu_values,         \* display_historical_analysis's local (line 548)
    mem_values,         \* display_historical_analysis's local (line 549)
    data_points,        \* the "Data Points" it prints (line 552); -1: none yet
    trend,              \* the CPU trend it prints (line 572); "-": none
    nreads,             \* historical analyses and exports so far
    net_pc,             \* where run_network_analysis is
    in_flight,          \* the hosts whose ping_host call has not returned
    probe_start,        \* when each host's probe started (ms into the call)
    probe_took,         \* how long each host's probe took (ms)
    results,            \* test_connectivity's `results`
    report,             \* what test_connectivity printed for each host
    net_clock,          \* ms since test_connectivity was called
    summary,            \* the connectivity summary run_network_analysis printed
    appended,           \* every snapshot ever put in the history, in order
    ncalls,             \* take_snapshot calls so far
    nconfigs            \* configure_alerts calls so far

vars == <<snapshots, alert_thresholds, alerts_enabled, running, monitor_thread,
          pc, snapshot, sliced, backend, period, wake, deadline, now,
          alerts_out, ret, typed, saved, cpu_values, mem_values, data_points,
          trend, nreads, net_pc, in_flight, probe_start, probe_took, results, report,
          net_clock, summary, appended, ncalls, nconfigs>>

monitor == <<snapshots, alert_thresholds, alerts_enabled>>

scheduler == <<running, monitor_thread, period, wake, deadline>>

reads == <<saved, cpu_values, mem_values, data_points, trend, nreads>>

net == <<net_pc, in_flight, probe_start, probe_took, results, report,
         net_clock, summary>>

locals == <<snapshot, sliced, backend>>

\* A history of n earlier snapshots, one a second.
Earlier(n) ==
    [i \in 1..n |-> SystemSnapshot(i, 50, <<50, 8, 16>>, <<50, 50, 100>>, <<1000, 2000>>, 3)]

\* The lengths of the history the behaviours start from: empty, one
\* below the capacity, at the capacity.
InitLens == {0, HistoryCap - 1, HistoryCap}

\* SystemAnalyzer.__init__ with the history h loaded from the data file.
InitWith(h) ==
    /\ snapshots = h
    /\ appended = snapshots
    /\ alert_thresholds = [m \in MetricSet |->
          CASE m = "cpu" -> DefaultCpuThreshold
            [] m = "memory" -> DefaultMemoryThreshold
            [] OTHER -> DefaultDiskThreshold]
    /\ alerts_enabled = TRUE
    /\ running = FALSE
    /\ monitor_thread = 0
    /\ pc = [t \in Threads |-> IF t = Main THEN "menu" ELSE "none"]
    /\ snapshot = [t \in Threads |-> NoSnapshot]
    /\ sliced = [t \in Threads |-> <<>>]
    /\ backend = [t \in Threads |-> NoBackend]
    /\ period = [t \in Threads |-> 0]
    /\ wake = [t \in Threads |-> 0]
    /\ saved = NoFile
    /\ cpu_values = <<>>
    /\ mem_values = <<>>
    /\ data_points = -1
    /\ trend = "-"
    /\ nreads = 0
    /\ net_pc = "idle"
    /\ in_flight = {}
    /\ probe_start = [i \in Hosts |-> -1]
    /\ probe_took = [i \in Hosts |-> 0]
    /\ results = [i \in Hosts |-> None]
    /\ report = [i \in Hosts |-> "-"]
    /\ net_clock = 0
    /\ summary = [printed |-> FALSE, reachable |-> 0, quality |-> "-"]
    /\ deadline = 0
    /\ now = HistoryCap
    /\ alerts_out = <<>>
    /\ ret = "-"
    /\ typed = ""
    /\ ncalls = 0
    /\ nconfigs = 0

Init == \E n \in InitLens : InitWith(Earlier(n))

(* ------------------------------------------------------------------ *)
(* The foreground alone: the menu's options run one at a time         *)
(* ------------------------------------------------------------------ *)

\* The clock advances.
Tick ==
    /\ pc[Main] # "exited"
    /\ now < HistoryCap + MaxTime
    /\ now' = now + 1
    /\ UNCHANGED <<net, monitor, scheduler, locals, reads, pc, alerts_out, ret,
                   typed, appended, ncalls, nconfigs>>

\* Option 1, display_current_status, with nothing else running: the
\* whole of take_snapshot and the status display.  An exception that
\* leaves it ends the program (main's except Exception).
display_current_status(b) ==
    /\ pc[Main] = "menu"
    /\ ncalls < MaxCalls
    /\ ncalls' = ncalls + 1
    /\ IF CollectError(b) # "-"
       THEN /\ ret' = CollectError(b)
            /\ pc' = [pc EXCEPT ![Main] = "exited"]
            /\ UNCHANGED <<snapshots, appended, alerts_out, snapshot>>
       ELSE LET s == Collected(b, now)
                alerts == AlertsOf(s, alerts_enabled, alert_thresholds)
            IN  /\ snapshot' = [snapshot EXCEPT ![Main] = s]
                /\ snapshots' = AppendAndTrim(snapshots, s)
                /\ appended' = Append(appended, s)
                /\ alerts_out' = alerts
                /\ ret' = IF AlertPrintFails(alerts, b)
                          THEN "UnicodeEncodeError" ELSE "ok"
                /\ pc' = [pc EXCEPT ![Main] =
                            IF AlertPrintFails(alerts, b) \/ DisplayFails(b)
                            THEN "exited" ELSE "menu"]
    /\ UNCHANGED <<net, alert_thresholds, alerts_enabled, scheduler, reads, sliced,
                   backend, now, typed, nconfigs>>

PromptOf(m) == CASE m = "cpu" -> "cfg_cpu" [] m = "memory" -> "cfg_memory"
                 [] OTHER -> "cfg_disk"

AfterPrompt(m) == CASE m = "cpu" -> "cfg_memory" [] m = "memory" -> "cfg_disk"
                    [] OTHER -> "cfg_toggle"

\* Option 5: configure_alerts prints the thresholds and prompts for cpu's.
configure_alerts ==
    /\ pc[Main] = "menu"
    /\ nconfigs < MaxConfigs
    /\ nconfigs' = nconfigs + 1
    /\ pc' = [pc EXCEPT ![Main] = "cfg_cpu"]
    /\ UNCHANGED <<net, monitor, scheduler, locals, reads, now, alerts_out, ret,
                   typed, appended, ncalls>>

\* lines 661-673, one turn of the loop: `line` is typed at m's prompt.
configure_threshold(m, line) ==
    /\ pc[Main] = PromptOf(m)
    /\ typed' = line
    /\ alert_thresholds' =
          [alert_thresholds EXCEPT ![m] = NewThreshold(alert_thresholds[m], line)]
    /\ pc' = [pc EXCEPT ![Main] = AfterPrompt(m)]
    /\ UNCHANGED <<net, snapshots, alerts_enabled, scheduler, locals, reads, now,
                   alerts_out, ret, appended, ncalls, nconfigs>>

\* lines 676-679: the toggle prompt; configure_alerts returns.
configure_toggle(answer) ==
    /\ pc[Main] = "cfg_toggle"
    /\ alerts_enabled' = IF answer = "y" THEN ~alerts_enabled ELSE alerts_enabled
    /\ typed' = ""
    /\ pc' = [pc EXCEPT ![Main] = "menu"]
    /\ UNCHANGED <<net, snapshots, alert_thresholds, scheduler, locals, reads, now,
                   alerts_out, ret, appended, ncalls, nconfigs>>

Configure ==
    \/ configure_alerts
    \/ \E m \in MetricSet, line \in ConfigInputs : configure_threshold(m, line)
    \/ \E answer \in {"y", "n"} : configure_toggle(answer)

\* The foreground collecting snapshots, whatever the platform does.
Next ==
    \/ \E b \in Backends : display_current_status(b)
    \/ Tick

Spec == Init /\ [][Next]_vars

\* The foreground configuring the alerts and collecting snapshots, from an
\* empty history.
InitCfg == Init /\ snapshots = <<>>

\* Option 1 in a session that also configures the alerts.
menu_status(b) ==
    /\ ncalls < MaxCfgCalls
    /\ display_current_status(b)

NextCfg ==
    \/ Configure
    \/ \E b \in HealthyBackends \cup MuteBackends : menu_status(b)

SpecCfg == InitCfg /\ [][NextCfg]_vars

(* ------------------------------------------------------------------ *)
(* The monitoring loop beside the foreground (SpecMon).  Threads      *)
(* switch between bytecodes, so take_snapshot and the historical      *)
(* analysis are taken a statement at a time.                          *)
(* ------------------------------------------------------------------ *)

\* Historical analyses and exports in one behaviour.
MaxReads == 1

\* The intervals typed at option 2 (5 is the default).
Intervals == {1, 5}

\* What the platform does during a call in SpecMon: every source
\* answers and all three alerts fire; the memory source divides by zero;
\* stdout cannot encode the status.
MonBackends ==
    { Backend(Ret(81), OkLoad, Ret(<<86, 8, 16>>), Ret(<<91, 90, 100>>), OkNet, OkConn, TRUE),
      Backend(Ret(81), OkLoad, Raise("ZeroDivisionError", ZeroTriple), OkDisk, OkNet, OkConn, TRUE),
      Backend(Ret(80), OkLoad, OkMem, OkDisk, OkNet, OkConn, FALSE) }

\* The process is alive: once Main has left the program the daemon
\* threads are gone with it.
Alive == pc[Main] # "exited"

\* An exception leaves thread t's code: it ends the program in Main
\* (main's except Exception) and the thread in a loop thread, where
\* nothing catches it.
Thrown(t) == IF t = Main THEN "exited" ELSE "crashed"

\* The thread start_monitoring creates next.
NewThread ==
    CHOOSE t \in LoopThreads :
        pc[t] = "none" /\ \A u \in LoopThreads : u < t => pc[u] # "none"

\* Option 2, lines 627-637: start_monitoring sets running, starts a new
\* thread on monitor_loop and waits in `while self.running: time.sleep(1)`.
start_monitoring(interval) ==
    /\ pc[Main] = "menu"
    /\ \E t \in LoopThreads : pc[t] = "none"
    /\ running' = TRUE
    /\ monitor_thread' = NewThread
    /\ period' = [period EXCEPT ![NewThread] = interval]
    /\ pc' = [pc EXCEPT ![NewThread] = "check", ![Main] = "waiting"]
    /\ UNCHANGED <<net, monitor, locals, reads, wake, deadline, now, alerts_out,
                   ret, typed, appended, ncalls, nconfigs>>

\* lines 638-645: Ctrl+C in the wait; stop_monitoring clears running and
\* calls monitor_thread.join(timeout=1).
stop_monitoring ==
    /\ pc[Main] = "waiting"
    /\ running' = FALSE
    /\ deadline' = now + JoinTimeout
    /\ pc' = [pc EXCEPT ![Main] = "joining"]
    /\ UNCHANGED <<net, monitor, locals, reads, monitor_thread, period, wake, now,
                   alerts_out, ret, typed, appended, ncalls, nconfigs>>

\* line 645: join returns when the thread has ended or the timeout has
\* passed.
join ==
    /\ pc[Main] = "joining"
    /\ \/ pc[monitor_thread] \in {"dead", "crashed"}
       \/ now >= deadline
    /\ deadline' = 0
    /\ pc' = [pc EXCEPT ![Main] = "saving"]
    /\ UNCHANGED <<net, monitor, locals, reads, running, monitor_thread, period,
                   wake, now, alerts_out, ret, typed, appended, ncalls, nconfigs>>

\* lines 646-647 and 485-495: stop_monitoring saves the last 50
\* snapshots and returns to the menu.
save_data ==
    /\ pc[Main] = "saving"
    /\ saved' = json_dump(snapshots)
    /\ pc' = [pc EXCEPT ![Main] = "menu"]
    /\ UNCHANGED <<net, monitor, scheduler, locals, cpu_values, mem_values,
                   data_points, trend, nreads, now, alerts_out, ret, typed,
                   appended, ncalls, nconfigs>>

\* Option 7: save_data from the menu.
export_data ==
    /\ pc[Main] = "menu"
    /\ nreads < MaxReads
    /\ nreads' = nreads + 1
    /\ saved' = json_dump(snapshots)
    /\ UNCHANGED <<net, monitor, scheduler, locals, pc, cpu_values, mem_values,
                   data_points, trend, now, alerts_out, ret, typed, appended,
                   ncalls, nconfigs>>

\* line 623: monitor_loop tests self.running; it calls
\* display_current_status or returns.
monitor_loop(t) ==
    /\ Alive
    /\ pc[t] = "check"
    /\ IF running
       THEN /\ ncalls < MaxCalls
            /\ ncalls' = ncalls + 1
            /\ pc' = [pc EXCEPT ![t] = "collect"]
       ELSE /\ pc' = [pc EXCEPT ![t] = "dead"]
            /\ UNCHANGED ncalls
    /\ UNCHANGED <<net, monitor, scheduler, locals, reads, now, alerts_out, ret,
                   typed, appended, nconfigs>>

\* Option 1 while loop threads may be alive: Main calls
\* display_current_status.
status_request ==
    /\ pc[Main] = "menu"
    /\ ncalls < MaxCalls
    /\ ncalls' = ncalls + 1
    /\ pc' = [pc EXCEPT ![Main] = "collect"]
    /\ UNCHANGED <<net, monitor, scheduler, locals, reads, now, alerts_out, ret,
                   typed, appended, nconfigs>>

\* lines 290-308: the getters, then the snapshot stamped with the clock.
take_snapshot_collect(t, b) ==
    /\ Alive
    /\ pc[t] = "collect"
    /\ IF CollectError(b) # "-"
       THEN /\ pc' = [pc EXCEPT ![t] = Thrown(t)]
            /\ ret' = IF t = Main THEN CollectError(b) ELSE ret
            /\ UNCHANGED <<snapshot, backend>>
       ELSE /\ snapshot' = [snapshot EXCEPT ![t] = Collected(b, now)]
            /\ backend' = [backend EXCEPT ![t] = b]
            /\ pc' = [pc EXCEPT ![t] = "built"]
            /\ UNCHANGED ret
    /\ UNCHANGED <<net, monitor, scheduler, reads, sliced, now, alerts_out, typed,
                   appended, ncalls, nconfigs>>

\* line 310: self.snapshots.append(snapshot)
take_snapshot_append(t) ==
    /\ Alive
    /\ pc[t] = "built"
    /\ snapshots' = Append(snapshots, snapshot[t])
    /\ appended' = Append(appended, snapshot[t])
    /\ pc' = [pc EXCEPT ![t] = "appended"]
    /\ UNCHANGED <<net, alert_thresholds, alerts_enabled, scheduler, locals, reads,
                   now, alerts_out, ret, typed, ncalls, nconfigs>>

\* lines 313-314, the right-hand side: the length is tested and the
\* slice evaluated.
take_snapshot_slice(t) ==
    /\ Alive
    /\ pc[t] = "appended"
    /\ IF Overflow(snapshots)
       THEN /\ sliced' = [sliced EXCEPT ![t] = KeepLast(snapshots)]
            /\ pc' = [pc EXCEPT ![t] = "sliced"]
       ELSE /\ pc' = [pc EXCEPT ![t] = "alerts"]
            /\ UNCHANGED sliced
    /\ UNCHANGED <<net, monitor, scheduler, reads, snapshot, backend, now,
                   alerts_out, ret, typed, appended, ncalls, nconfigs>>

\* line 314, the assignment: self.snapshots = <the slice>
take_snapshot_store(t) ==
    /\ Alive
    /\ pc[t] = "sliced"
    /\ snapshots' = sliced[t]
    /\ sliced' = [sliced EXCEPT ![t] = <<>>]
    /\ pc' = [pc EXCEPT ![t] = "alerts"]
    /\ UNCHANGED <<net, alert_thresholds, alerts_enabled, scheduler, reads, snapshot,
                   backend, now, alerts_out, ret, typed, appended, ncalls,
                   nconfigs>>

\* lines 317-320 and 501-522: the alerts, the return and the status
\* display; then line 625, time.sleep(interval), in a loop thread and the
\* menu in Main.
take_snapshot_finish(t) ==
    /\ Alive
    /\ pc[t] = "alerts"
    /\ LET alerts == AlertsOf(snapshot[t], alerts_enabled, alert_thresholds)
           fails == AlertPrintFails(alerts, backend[t]) \/ DisplayFails(backend[t])
       IN  /\ alerts_out' = alerts
           /\ ret' = IF t # Main THEN ret
                     ELSE IF AlertPrintFails(alerts, backend[t])
                          THEN "UnicodeEncodeError" ELSE "ok"
           /\ pc' = [pc EXCEPT ![t] =
                       IF fails THEN Thrown(t)
                       ELSE IF t = Main THEN "menu" ELSE "sleeping"]
           /\ wake' = IF t # Main /\ ~fails
                      THEN [wake EXCEPT ![t] = now + period[t]] ELSE wake
    /\ snapshot' = IF t = Main THEN snapshot
                   ELSE [snapshot EXCEPT ![t] = NoSnapshot]
    /\ backend' = [backend EXCEPT ![t] = NoBackend]
    /\ UNCHANGED <<net, monitor, reads, sliced, running, monitor_thread, period,
                   deadline, now, typed, appended, ncalls, nconfigs>>

\* line 625: time.sleep(interval) returns.
monitor_loop_wake(t) ==
    /\ Alive
    /\ pc[t] = "sleeping"
    /\ now >= wake[t]
    /\ wake' = [wake EXCEPT ![t] = 0]
    /\ pc' = [pc EXCEPT ![t] = "check"]
    /\ UNCHANGED <<net, monitor, locals, reads, running, monitor_thread, period,
                   deadline, now, alerts_out, ret, typed, appended, ncalls,
                   nconfigs>>

\* Option 4, lines 539-548: display_historical_analysis returns when
\* there are fewer than two snapshots, and reads cpu_values.
display_historical_analysis ==
    /\ pc[Main] = "menu"
    /\ nreads < MaxReads
    /\ nreads' = nreads + 1
    /\ IF Len(snapshots) < 2
       THEN UNCHANGED <<pc, cpu_values, mem_values, data_points, trend>>
       ELSE /\ cpu_values' = [i \in 1..Len(snapshots) |-> snapshots[i].cpu_percent]
            /\ mem_values' = <<>>
            /\ data_points' = -1
            /\ trend' = "-"
            /\ pc' = [pc EXCEPT ![Main] = "hist_mem"]
    /\ UNCHANGED <<net, monitor, scheduler, locals, saved, now, alerts_out, ret,
                   typed, appended, ncalls, nconfigs>>

\* line 549: mem_values
historical_mem_values ==
    /\ pc[Main] = "hist_mem"
    /\ mem_values' = [i \in 1..Len(snapshots) |-> snapshots[i].memory_percent]
    /\ pc' = [pc EXCEPT ![Main] = "hist_points"]
    /\ UNCHANGED <<net, monitor, scheduler, locals, saved, cpu_values, data_points,
                   trend, nreads, now, alerts_out, ret, typed, appended, ncalls,
                   nconfigs>>

\* lines 552-575: the number of data points and the statistics are
\* printed.
historical_data_points ==
    /\ pc[Main] = "hist_points"
    /\ data_points' = Len(snapshots)
    /\ trend' = TrendOf(cpu_values)
    /\ pc' = [pc EXCEPT ![Main] = "menu"]
    /\ UNCHANGED <<net, monitor, scheduler, locals, saved, cpu_values, mem_values,
                   nreads, now, alerts_out, ret, typed, appended, ncalls,
                   nconfigs>>

\* Monitoring starts on a full history.
InitMon == Init /\ Len(snapshots) = HistoryCap

NextMon ==
    \/ \E interval \in Intervals : start_monitoring(interval)
    \/ stop_monitoring
    \/ join
    \/ save_data
    \/ export_data
    \/ status_request
    \/ \E t \in LoopThreads : monitor_loop(t)
    \/ \E t \in Threads, b \in MonBackends : take_snapshot_collect(t, b)
    \/ \E t \in Threads : take_snapshot_append(t)
    \/ \E t \in Threads : take_snapshot_slice(t)
    \/ \E t \in Threads : take_snapshot_store(t)
    \/ \E t \in Threads : take_snapshot_finish(t)
    \/ \E t \in LoopThreads : monitor_loop_wake(t)
    \/ display_historical_analysis
    \/ historical_mem_values
    \/ historical_data_points
    \/ Tick

SpecMon == InitMon /\ [][NextMon]_vars

(* ------------------------------------------------------------------ *)
(* Option 3, run_network_analysis (SpecNet)                           *)
(* ------------------------------------------------------------------ *)

rest == <<monitor, scheduler, locals, reads, pc, now, alerts_out, ret, typed,
          appended, ncalls, nconfigs>>

\* lines 595 and 365-366: run_network_analysis calls test_connectivity,
\* which starts from an empty `results`.
test_connectivity ==
    /\ net_pc \in {"idle", "done"}
    /\ net_pc' = "probing"
    /\ in_flight' = {}
    /\ probe_start' = [i \in Hosts |-> -1]
    /\ probe_took' = [i \in Hosts |-> 0]
    /\ results' = [i \in Hosts |-> None]
    /\ report' = [i \in Hosts |-> "-"]
    /\ net_clock' = 0
    /\ UNCHANGED <<rest, summary>>

\* lines 368-370: ping_host is called for host i.
ping_start(i) ==
    /\ net_pc = "probing"
    /\ MayStart(i, in_flight, probe_start)
    /\ in_flight' = in_flight \cup {i}
    /\ probe_start' = [probe_start EXCEPT ![i] = net_clock]
    /\ UNCHANGED <<rest, net_pc, probe_took, results, report, net_clock, summary>>

\* lines 370-376: host i's ping_host returns after o.took ms; the result
\* is stored and reported.
ping_return(i, o) ==
    /\ net_pc = "probing"
    /\ i \in in_flight
    /\ in_flight' = in_flight \ {i}
    /\ probe_took' = [probe_took EXCEPT ![i] = o.took]
    /\ net_clock' = Max(net_clock, probe_start[i] + o.took)
    /\ results' = [results EXCEPT ![i] = ping_host(o)]
    /\ report' = [report EXCEPT ![i] = ReportOf(ping_host(o))]
    /\ UNCHANGED <<rest, net_pc, probe_start, summary>>

\* lines 378 and 597-610: test_connectivity returns when the loop is
\* over; run_network_analysis prints the summary.
connectivity_summary ==
    /\ net_pc = "probing"
    /\ in_flight = {}
    /\ \A i \in Hosts : probe_start[i] >= 0
    /\ summary' = SummaryOf(results)
    /\ net_pc' = "done"
    /\ UNCHANGED <<rest, in_flight, probe_start, probe_took, results, report,
                   net_clock>>

NextNet ==
    \/ test_connectivity
    \/ \E i \in Hosts : ping_start(i)
    \/ \E i \in Hosts, o \in ProbeOutcomes : ping_return(i, o)
    \/ connectivity_summary

\* The connectivity test, from an empty history.
InitNet == Init /\ snapshots = <<>>

SpecNet == InitNet /\ [][NextNet]_vars

(* ------------------------------------------------------------------ *)
(* Option 4, display_historical_analysis, alone (SpecHist)            *)
(* ------------------------------------------------------------------ *)

\* The longest history the analysis starts from.
MaxHist == 11

\* The cpu_percent values of the snapshots in those histories.
CpuLevels == {20, 60}

\* A history with the given cpu_percent values, one snapshot a second.
HistoryOf(cpus) ==
    [i \in 1..Len(cpus) |->
        SystemSnapshot(i, cpus[i], <<50, 8, 16>>, <<50, 50, 100>>, <<1000, 2000>>, 3)]

InitHist ==
    \E n \in 0..MaxHist : \E cpus \in [1..n -> CpuLevels] : InitWith(HistoryOf(cpus))

NextHist ==
    \/ display_historical_analysis
    \/ historical_mem_values
    \/ historical_data_points

SpecHist == InitHist /\ [][NextHist]_vars

(* ------------------------------------------------------------------ *)
(* Saving on exit and loading at the next start (SpecSave)            *)
(* ------------------------------------------------------------------ *)

\* Option 8, lines 759-763: save_data, then the menu loop ends.
exit_program ==
    /\ pc[Main] = "menu"
    /\ saved' = json_dump(snapshots)
    /\ pc' = [pc EXCEPT ![Main] = "quit"]
    /\ UNCHANGED <<net, monitor, scheduler, locals, cpu_values, mem_values,
                   data_points, trend, nreads, now, alerts_out, ret, typed,
                   appended, ncalls, nconfigs>>

\* The program is started again: SystemAnalyzer.__init__ builds a new
\* monitor and load_historical_data reads the data file.
load_historical_data ==
    /\ pc[Main] \in {"quit", "exited"}
    /\ snapshots' = LoadedFrom(saved)
    /\ appended' = snapshots'
    /\ alert_thresholds' = [m \in MetricSet |->
          CASE m = "cpu" -> DefaultCpuThreshold
            [] m = "memory" -> DefaultMemoryThreshold
            [] OTHER -> DefaultDiskThreshold]
    /\ alerts_enabled' = TRUE
    /\ snapshot' = [snapshot EXCEPT ![Main] = NoSnapshot]
    /\ alerts_out' = <<>>
    /\ ret' = "-"
    /\ typed' = ""
    /\ pc' = [pc EXCEPT ![Main] = "menu"]
    /\ UNCHANGED <<net, scheduler, reads, sliced, backend, now, ncalls, nconfigs>>

\* The lengths of the history the sessions start from, around SaveCap.
SaveLens == {0, 5, SaveCap - 1, SaveCap, SaveCap + 1, HistoryCap}

\* A history of n snapshots that differ in every field that varies.
Varied(n) ==
    [i \in 1..n |->
        SystemSnapshot(i, 10 + (i % 7), <<20 + (i % 5), 8 + (i % 3), 16>>,
                       <<30 + (i % 4), 50 + (i % 2), 100>>,
                       <<1000 + i, 2000 + (2 * i)>>, i % 6)]

InitSave == \E n \in SaveLens : InitWith(Varied(n))

NextSave ==
    \/ \E b \in HealthyBackends \cup MuteBackends : menu_status(b)
    \/ export_data
    \/ exit_program
    \/ load_historical_data

SpecSave == InitSave /\ [][NextSave]_vars

(* ------------------------------------------------------------------ *)
(* The history (Spec)                                                 *)
(* ------------------------------------------------------------------ *)

\* The last n elements of s, element by element.
LastOf(s, n) == [i \in 1..n |-> s[Len(s) - n + i]]

\* C1: after every take_snapshot the history holds at most 100
\* snapshots; while no more than 100 were ever appended it holds them
\* all, and after that exactly the last 100 appended, in the order they
\* were appended.
C1_HistoryKeepsLast100 ==
    /\ Len(snapshots) <= HistoryCap
    /\ Len(appended) <= HistoryCap => snapshots = appended
    /\ Len(appended) > HistoryCap => snapshots = LastOf(appended, HistoryCap)

\* C1's case: two snapshots were taken on a full history, so the two
\* oldest were evicted.
C1_Witness ==
    /\ Len(appended) = HistoryCap + 2
    /\ Len(snapshots) = HistoryCap
    /\ snapshots[1] = Earlier(HistoryCap)[3]
    /\ ret = "ok"

\* C5: take_snapshot never raises because a source failed: whatever the
\* CPU, memory, disk, network and connection sources do, the call ends
\* with a snapshot.
C5_SourceFailureNeverRaises ==
    ret \in {"-", "ok", "UnicodeEncodeError"}

\* C6 as stated: a take_snapshot call leaves the history as it was.
C6_TakeLeavesHistory ==
    [][ncalls' # ncalls => snapshots' = snapshots]_vars

\* C6 amended: a take_snapshot call that returns a snapshot has put that
\* snapshot at the tail of the history, after the entries that were there
\* (less the oldest, when the history was full).
C6_TakeAppendsWhatItReturns ==
    [][(ncalls' # ncalls /\ ret' = "ok") =>
          LET s == snapshot'[Main]
              kept == Min(Len(snapshots), HistoryCap - 1)
          IN  /\ Len(snapshots') = kept + 1
              /\ snapshots'[kept + 1] = s
              /\ \A i \in 1..kept :
                    snapshots'[i] = snapshots[Len(snapshots) - kept + i]]_vars

\* C6's case: a call on a history of 99 returned and its snapshot is the
\* 100th entry.
C6_Witness ==
    /\ ncalls = 1
    /\ ret = "ok"
    /\ Len(snapshots) = HistoryCap
    /\ snapshots[HistoryCap - 1] = Earlier(HistoryCap - 1)[HistoryCap - 1]
    /\ snapshots[HistoryCap] = snapshot[Main]

(* ------------------------------------------------------------------ *)
(* Alerts and their configuration (SpecCfg)                           *)
(* ------------------------------------------------------------------ *)

ValueOf(s, m) ==
    CASE m = "cpu" -> s.cpu_percent
      [] m = "memory" -> s.memory_percent
      [] OTHER -> s.disk_percent

RankOf(m) == CASE m = "cpu" -> 1 [] m = "memory" -> 2 [] OTHER -> 3

\* C7: the alerts evaluated for a snapshot hold exactly one alert, with
\* the snapshot's value, for each of cpu, memory and disk whose value is
\* strictly greater than its threshold, none for a value equal to or
\* below it, in the order cpu, memory, disk; the thresholds are left as
\* they were and the history holds what it held and the new snapshot.
C7_AlertsExactlyAboveThreshold ==
    [][(ncalls' # ncalls /\ ret' \in {"ok", "UnicodeEncodeError"} /\ alerts_enabled) =>
          LET s == snapshot'[Main]
              a == alerts_out'
          IN  /\ \A m \in MetricSet :
                    Cardinality({i \in 1..Len(a) : a[i].metric = m})
                       = IF ValueOf(s, m) > alert_thresholds[m] THEN 1 ELSE 0
              /\ \A i \in 1..Len(a) :
                    /\ a[i].metric \in MetricSet
                    /\ a[i].value = ValueOf(s, a[i].metric)
              /\ \A i, j \in 1..Len(a) :
                    i < j => RankOf(a[i].metric) < RankOf(a[j].metric)
              /\ alert_thresholds' = alert_thresholds
              /\ snapshots' = Append(snapshots, s)]_vars

\* C7's case: cpu and disk are above their thresholds and alerted in
\* that order, memory is exactly at its threshold and not alerted.
C7_Witness ==
    /\ ret = "ok"
    /\ Len(alerts_out) = 2
    /\ alerts_out[1].metric = "cpu"
    /\ alerts_out[2].metric = "disk"
    /\ snapshot[Main].memory_percent = alert_thresholds["memory"]
    /\ snapshot[Main].cpu_percent > alert_thresholds["cpu"]

\* The lines that are numbers in (0,100], with their values.
ValidEntries == [line \in {"50", "100"} |-> IF line = "50" THEN 50 ELSE 100]

\* C8: every threshold is in (0,100] in every state; a threshold changes
\* only at its own metric's prompt and only to a value in (0,100] typed
\* there, such a value always replaces it, and any other line leaves
\* every threshold as it was.
C8_ThresholdsValidated ==
    /\ [](\A m \in MetricSet : 0 < alert_thresholds[m] /\ alert_thresholds[m] <= 100)
    /\ [][\A m \in MetricSet :
            /\ alert_thresholds'[m] # alert_thresholds[m] =>
                  /\ pc[Main] = PromptOf(m)
                  /\ typed' \in DOMAIN ValidEntries
                  /\ alert_thresholds'[m] = ValidEntries[typed']
            /\ (pc[Main] = PromptOf(m) /\ pc'[Main] # pc[Main]
                                       /\ typed' \in DOMAIN ValidEntries) =>
                  alert_thresholds'[m] = ValidEntries[typed']]_vars

\* C8's case: 50 was accepted for cpu, then 101 was typed for disk and
\* rejected.
C8_Witness ==
    /\ pc[Main] = "cfg_toggle"
    /\ typed = "101"
    /\ alert_thresholds["cpu"] = 50
    /\ alert_thresholds["disk"] = DefaultDiskThreshold

(* ------------------------------------------------------------------ *)
(* The monitoring loop (SpecMon)                                      *)
(* ------------------------------------------------------------------ *)

\* stop_monitoring has returned and monitoring was not started again.
Stopped == ~running /\ pc[Main] \notin {"joining", "saving"}

\* C2: once stop_monitoring has returned (and saved), no loop thread
\* appends to the history.
C2_NoAppendAfterStop ==
    [][Stopped => \A t \in LoopThreads :
                     ~(pc[t] = "built" /\ pc'[t] = "appended")]_vars

\* Loop thread t is in a cycle, or will run one: it is between the test
\* of self.running and the end of display_current_status, or it is at the
\* test (or asleep before it) while self.running is set.
LoopActive(t) ==
    \/ pc[t] \in {"collect", "built", "appended", "sliced", "alerts"}
    \/ running /\ pc[t] \in {"check", "sleeping"}

\* C3: at most one loop thread is ever able to run cycles and append to
\* the history.
C3_OneLoopAtATime ==
    Cardinality({t \in LoopThreads : LoopActive(t)}) <= 1

\* C4: no exception raised in a cycle ends a loop thread.
C4_LoopSurvivesFailure ==
    \A t \in LoopThreads : pc[t] # "crashed"

\* C9: a foreground read never sees the history between an append and
\* its truncation (101 entries), and the sequences one historical
\* analysis reads come from one history: they have the same length, the
\* number of data points it prints.
C9_ReadsSeeOneHistory ==
    /\ Len(cpu_values) <= HistoryCap
    /\ Len(mem_values) <= HistoryCap
    /\ data_points <= HistoryCap
    /\ pc[Main] = "hist_points" => Len(mem_values) = Len(cpu_values)
    /\ data_points >= 0 => /\ data_points = Len(cpu_values)
                           /\ data_points = Len(mem_values)

(* ------------------------------------------------------------------ *)
(* The connectivity test (SpecNet)                                    *)
(* ------------------------------------------------------------------ *)

\* Host i's probe timed out.
TimedOut(i) ==
    probe_start[i] >= 0 /\ i \notin in_flight /\ ~results[i].present
       /\ probe_took[i] = PingTimeoutMs

C11_ZeroIsPresent ==
    /\ \A i \in Hosts :
          report[i] # "-" => (report[i] = "TIMEOUT" <=> ~results[i].present)
    /\ net_pc = "done" =>
          summary.reachable = Cardinality({i \in Hosts : results[i].present})

\* The hosts that responded, and the sum of their round-trip times.
Responders == {i \in Hosts : results[i].present}

RttTotal == SumOver([i \in Hosts |-> results[i].ms], Responders)

\* The quality class of the average of the responders' round-trip
\* times: < 50 ms Excellent, else < 100 ms Good, else Poor.
ClassOfAverage ==
    LET n == Cardinality(Responders) IN
    IF RttTotal < 50 * n THEN "Excellent"
    ELSE IF RttTotal < 100 * n THEN "Good" ELSE "Poor"

\* C13, the part about responders: when some host responded, the
\* summary gives the class of the average over the responders only.
C13_QualityOfResponders ==
    (net_pc = "done" /\ Responders # {}) =>
        /\ summary.printed
        /\ summary.quality = ClassOfAverage

\* C13: the quality is the class of the average of the present
\* round-trip times; when no host responded the summary is an explicit
\* report that carries no quality class.
C13_QualityOrNoData ==
    /\ C13_QualityOfResponders
    /\ (net_pc = "done" /\ Responders = {}) =>
          /\ summary.printed
          /\ summary.quality = "-"

(* ------------------------------------------------------------------ *)
(* The historical analysis (SpecHist)                                 *)
(* ------------------------------------------------------------------ *)

\* The cpu_percent of the i-th snapshot of the history.
CpuAt(i) == snapshots[i].cpu_percent

\* C12: when the analysis of a history of fewer than 10 points is over,
\* no trend was printed; with 10 points or more the trend is Increasing
\* exactly when the last 5 cpu values add up to more than the first 5
\* of the whole history (their means compare alike), Decreasing
\* otherwise.
C12_TrendNeedsTenPoints ==
    LET n == Len(snapshots) IN
    /\ n < 10 => trend = "-"
    /\ (n >= 10 /\ data_points = n) =>
          trend = IF CpuAt(n-4) + CpuAt(n-3) + CpuAt(n-2) + CpuAt(n-1) + CpuAt(n)
                      > CpuAt(1) + CpuAt(2) + CpuAt(3) + CpuAt(4) + CpuAt(5)
                  THEN "Increasing" ELSE "Decreasing"

\* C12's case: a history of 11 points whose last 5 values are higher
\* than its first 5, while the 5 values before the last 5 are not lower
\* than them: the trend printed is Increasing.
C12_Witness ==
    /\ Len(snapshots) = 11
    /\ data_points = 11
    /\ trend = "Increasing"
    /\ \A i \in 1..5 : CpuAt(i) = 20
    /\ \A i \in 6..11 : CpuAt(i) = 60

\* C12's other case: 9 points, analysed, and no trend.
C12_WitnessShort ==
    /\ Len(snapshots) = 9
    /\ data_points = 9
    /\ trend = "-"

(* ------------------------------------------------------------------ *)
(* The data file (SpecSave)                                           *)
(* ------------------------------------------------------------------ *)

\* C14: the history loaded from the document that was just saved is the
\* most recent min(n, 50) snapshots of the history of n snapshots that
\* was saved, in the same order and equal field for field; a history of
\* 5 snapshots comes back unchanged.
C14_SaveLoadRoundTrip ==
    [][(pc[Main] = "quit" /\ pc'[Main] = "menu") =>
          /\ Len(snapshots') = Min(Len(snapshots), 50)
          /\ \A i \in 1..Len(snapshots') : \A f \in DOMAIN snapshots'[i] :
                snapshots'[i][f] = snapshots[Len(snapshots) - Len(snapshots') + i][f]
          /\ \A i \in 1..Len(snapshots') :
                DOMAIN snapshots'[i] = DOMAIN snapshots[Len(snapshots) - Len(snapshots') + i]
          /\ Len(snapshots) = 5 => snapshots' = snapshots]_vars

\* C14's case: a history of 51 snapshots was saved on exit and the next
\* start loaded its last 50, the first of them the second one saved.
C14_Witness ==
    /\ pc[Main] = "menu"
    /\ saved.exists
    /\ ncalls = 0
    /\ snapshots = appended
    /\ Len(snapshots) = 50
    /\ snapshots[1].timestamp = 2
    /\ snapshots[50] = Varied(51)[51]

(* ------------------------------------------------------------------ *)
(* The order of the history (SpecMon)                                 *)
(* ------------------------------------------------------------------ *)

\* C15: in every state the stored history is ordered non-decreasingly
\* by timestamp, whatever the interleaving of the loop's cycles and the
\* foreground's status requests.
C15_HistoryOrderedByTime ==
    \A i, j \in 1..Len(snapshots) :
        i < j => snapshots[i].timestamp <= snapshots[j].timestamp

(* ------------------------------------------------------------------ *)
(* Cancellation of the loop (SpecMon)                                 *)
(* ------------------------------------------------------------------ *)

\* The stop signal was given after loop thread t was started:
\* self.running is set only by start_monitoring, together with a new
\* monitor_thread.
StopSignalled(t) ==
    /\ pc[t] # "none"
    /\ ~running \/ monitor_thread # t

\* C16: once stop is signalled, a loop thread finishes the cycle it is
\* in, collection and append included (no exception ends it before the
\* append), and never starts another cycle: the next time it is at the
\* top of the loop it ends.
C16_StopEndsTheLoop ==
    [][\A t \in LoopThreads : StopSignalled(t) =>
          /\ pc[t] = "check" => pc'[t] \in {"check", "dead"}
          /\ pc[t] \in {"collect", "built"} => pc'[t] # "crashed"]_vars

====
